---- MODULE Spec2Model ----
(***************************************************************************)
(* A model of PyInstaller's macOS bundle builder, BUNDLE, of               *)
(* PyInstaller/building/osx.py: the constructor that merges the upstream   *)
(* targets into one manifest (self.toc), and assemble(), which rebuilds    *)
(* the .app tree: skeleton, icon, Info.plist, the placement loop over the  *)
(* manifest, and the final signing call.                                   *)
(*                                                                         *)
(* The file system is a function from the paths that exist (sequences of   *)
(* path segments below the bundle root self.name) to nodes: a directory,   *)
(* a regular file with its content, or a symbolic link with its target.    *)
(***************************************************************************)
EXTENDS Integers, Sequences, FiniteSets, TLC

VARIABLES
    args,      \* the upstream targets given to BUNDLE(*args, **kws)
    kws,       \* the keyword arguments given to it
    prior,     \* the tree found at self.name when the build starts
    pc,        \* where the build stands
    self,      \* the attributes of the BUNDLE object set so far
    toc,       \* self.toc, the merged manifest
    fs,        \* the tree at self.name
    idx,       \* the entry of self.toc the placement loop is at
    err,       \* the exception that ended the build, if one did
    warnings,  \* the warnings logged
    signed     \* whether sign_binary has signed the bundle

vars == <<args, kws, prior, pc, self, toc, fs, idx, err, warnings, signed>>

\* The largest number of raw-manifest targets that follow the executable
\* descriptor in the builds of Spec.
MaxEntries == 3

\* The largest number of upstream targets in the builds of SpecBuild.
MaxArgs == 3

-----------------------------------------------------------------------------
(* Path segments.  A segment is a string; what the code asks of a string   *)
(* ('.' in p, Path.suffix) is tabulated for the segments of the model.     *)

\* '.' in p
HasDot(p) == p \in {"l.so", "m.so", "p.i", "icon-windowed.icns", "Info.plist"}

\* Path(p).suffix
Suffix(p) ==
    CASE p \in {"l.so", "m.so"} -> ".so"
      [] p = "p.i" -> ".i"
      [] p = "icon-windowed.icns" -> ".icns"
      [] p = "Info.plist" -> ".plist"
      [] OTHER -> ""

Last(s) == s[Len(s)]

\* Path.parent
Parent(p) == SubSeq(p, 1, Len(p) - 1)

\* any(['.' in p for p in inm_.parent.parts])
DottedParent(inm) == \E i \in 1..(Len(inm) - 1) : HasDot(inm[i])

-----------------------------------------------------------------------------
(* Source files of the build, outside the bundle.                          *)

Src(d, b, isdir) == [dir |-> d, base |-> b, isdir |-> isdir]

SrcApp == Src("/build", "app", FALSE)
SrcRun == Src("/build", "run", FALSE)
SrcA   == Src("/build", "a", FALSE)
AltA   == Src("/alt", "a", FALSE)
SrcL   == Src("/build", "l.so", FALSE)
SrcM   == Src("/build", "m.so", FALSE)
SrcD   == Src("/build", "d", TRUE)
IconSrc == Src("/bootloader/images", "icon-windowed.icns", FALSE)

\* os.path.basename
Basename(src) == src.base

-----------------------------------------------------------------------------
(* Manifest entries (inm, fnm, typ) and the upstream targets.              *)

Entry(inm, fnm, typ) == [inm |-> inm, fnm |-> fnm, typ |-> typ]

\* The entries of the raw manifests of the builds of Spec: every kind, the
\* same destination from two sources and on each of the three placement
\* paths, a dotted parent on the binary and on the data path, nested names
\* and a name that is the directory of another.
Entries ==
    { Entry(<<"a">>, SrcA, "BINARY"),
      Entry(<<"p.i", "a">>, AltA, "BINARY"),
      Entry(<<"a">>, SrcA, "DATA"),
      Entry(<<"a">>, AltA, "OTHER"),
      Entry(<<"l.so">>, SrcL, "DATA"),
      Entry(<<"m">>, SrcM, "EXTENSION"),
      Entry(<<"p.i", "a">>, SrcA, "DATA"),
      Entry(<<"d", "a">>, SrcA, "DATA"),
      Entry(<<"d", "a">>, AltA, "BINARY"),
      Entry(<<"d">>, SrcA, "DATA") }

ExeTarget ==
    [cls |-> "EXE", name |-> SrcApp, typ |-> "EXECUTABLE", dependencies |-> <<>>,
     strip |-> FALSE, upx |-> TRUE, upx_exclude |-> {"vcruntime"}, console |-> FALSE,
     target_arch |-> "arm64", codesign_identity |-> "Dev ID",
     entitlements_file |-> "ent.plist"]

CollectTarget ==
    [cls |-> "COLLECT",
     toc |-> <<Entry(<<"app">>, SrcApp, "EXECUTABLE"), Entry(<<"d", "a">>, AltA, "BINARY")>>,
     strip_binaries |-> TRUE, upx_binaries |-> FALSE, upx_exclude |-> {}, console |-> TRUE,
     target_arch |-> "x86_64", codesign_identity |-> "None",
     entitlements_file |-> "None"]

\* An executable descriptor with a dependency of its own.
ExeDepsTarget ==
    [cls |-> "EXE", name |-> SrcRun, typ |-> "EXECUTABLE",
     dependencies |-> <<Entry(<<"l.so">>, SrcL, "BINARY")>>,
     strip |-> TRUE, upx |-> TRUE, upx_exclude |-> {}, console |-> TRUE,
     target_arch |-> "universal2", codesign_identity |-> "None",
     entitlements_file |-> "None"]

TocTarget(e) == [cls |-> "TOC", toc |-> <<e>>]

OtherTarget == [cls |-> "Tree"]

Descriptors == {ExeTarget, CollectTarget}

TocTargets == {TocTarget(e) : e \in Entries}

\* The upstream targets of the builds of SpecBuild.
BuildTargets ==
    Descriptors \cup {ExeDepsTarget, OtherTarget}
    \cup {TocTarget(e) : e \in {Entry(<<"app">>, SrcRun, "EXECUTABLE"),
                                 Entry(<<"a">>, SrcA, "BINARY"),
                                 Entry(<<"a">>, SrcA, "DATA"),
                                 Entry(<<"d">>, SrcD, "OTHER")}}

SeqsUpTo(S, n) == UNION {[1..k -> S] : k \in 0..n}

-----------------------------------------------------------------------------
(* The file system.                                                        *)

DirNode == [type |-> "dir"]
FileNode(c) == [type |-> "file", content |-> c]
LinkNode(t) == [type |-> "link", target |-> t]

\* What a copied file holds: the source it was read from, and whether it
\* went through the binary cache.
Content(src, cached) == [from |-> src, cached |-> cached]

Root == <<>>
ContentsDir == <<"Contents">>
macos_path == <<"Contents", "MacOS">>
resources_path == <<"Contents", "Resources">>
frameworks_path == <<"Contents", "Frameworks">>
plist_filename == <<"Contents", "Info.plist">>

EmptyFS == <<>>

\* A tree left at self.name by an earlier build of another manifest.
StaleFS ==
    (Root :> DirNode) @@ (ContentsDir :> DirNode) @@ (macos_path :> DirNode)
    @@ (resources_path :> DirNode) @@ (frameworks_path :> DirNode)
    @@ ((macos_path \o <<"old">>) :> FileNode(Content(SrcA, FALSE)))

\* Path.exists(): follows a symbolic link at p.
Exists(f, p) ==
    /\ p \in DOMAIN f
    /\ f[p].type = "link" => f[p].target \in DOMAIN f

\* Path.is_dir() / os.path.isdir(): follows a symbolic link at p.
IsDir(f, p) ==
    /\ p \in DOMAIN f
    /\ \/ f[p].type = "dir"
       \/ /\ f[p].type = "link"
          /\ f[p].target \in DOMAIN f
          /\ f[f[p].target].type = "dir"

Ok(f) == [ok |-> TRUE, fs |-> f, err |-> "none"]
\* Fail that leaves nothing of the tree.
Fail_Clean(f, e) == [ok |-> FALSE, fs |-> EmptyFS, err |-> e]

Fail(f, e) == [ok |-> FALSE, fs |-> f, err |-> e]

\* os.makedirs(p, exist_ok=True): creates p and its missing ancestors; fails
\* when p or an ancestor exists and is not a directory.
RECURSIVE MakeDirs(_, _)
MakeDirs(f, p) ==
    IF p \in DOMAIN f
    THEN IF IsDir(f, p) THEN Ok(f) ELSE Fail(f, "FileExistsError")
    ELSE IF p = Root
         THEN Ok((p :> DirNode) @@ f)
         ELSE LET r == MakeDirs(f, Parent(p))
              IN  IF r.ok THEN Ok((p :> DirNode) @@ r.fs) ELSE r

\* shutil.copy(src, dst, follow_symlinks=True) of a source file whose base
\* name is base and whose bytes are content: into the directory dst when dst
\* is one, else onto dst, overwriting it (through a link, if dst is one).
CopyFile(f, isdir, base, content, dst) ==
    LET into == IF IsDir(f, dst) THEN dst \o <<base>> ELSE dst
        onto == IF into \in DOMAIN f /\ f[into].type = "link"
                THEN f[into].target ELSE into
    IN  IF isdir THEN Fail(f, "IsADirectoryError")
        ELSE IF IsDir(f, onto) THEN Fail(f, "IsADirectoryError")
        ELSE IF ~IsDir(f, Parent(onto)) THEN Fail(f, "FileNotFoundError")
        ELSE Ok((onto :> FileNode(content)) @@ f)

\* Path.symlink_to(target)
SymlinkTo(f, link, target) ==
    IF link \in DOMAIN f THEN Fail(f, "FileExistsError")
    ELSE IF ~IsDir(f, Parent(link)) THEN Fail(f, "FileNotFoundError")
    ELSE Ok((link :> LinkNode(target)) @@ f)

\* RmTree that removes nothing.
RmTree_Keep(f, p) == f

\* _rmtree(self.name)
RmTree(f, p) ==
    LET keep == {q \in DOMAIN f : Len(q) < Len(p) \/ SubSeq(q, 1, Len(p)) # p}
    IN  [q \in keep |-> f[q]]

-----------------------------------------------------------------------------
(* BUNDLE.__init__                                                         *)

\* A Python value that is either a dict or None.
NoneValue == [isdict |-> FALSE, d |-> <<>>]
Dict(d) == [isdict |-> TRUE, d |-> d]

\* kws.get(k, default)
Get(k, key, default) == IF key \in DOMAIN k THEN k[key] ELSE default

\* self.<key> = v
SetAttr(s, key, v) == (key :> v) @@ s

\* os.path.splitext(base_name)[0]
SplitExtRoot(b) == IF b = "My.app" THEN "My" ELSE b

\* TOC.append and TOC.extend: the manifest is an ordered sequence in which
\* an internal name may occur more than once.
TocAppend(t, e) == Append(t, e)
TocExtend(t, es) == t \o es

\* The attributes inherited from an executable or collection descriptor.
Inherit(s, strip, upx, upx_exclude, console, arch, ident, ent) ==
    SetAttr(SetAttr(SetAttr(SetAttr(SetAttr(SetAttr(SetAttr(s,
        "strip", strip), "upx", upx), "upx_exclude", upx_exclude),
        "console", console), "target_arch", arch),
        "codesign_identity", ident), "entitlements_file", ent)

\* One turn of "for arg in args".
ApplyArg(st, arg) ==
    CASE arg.cls = "EXE" ->
           [toc |-> TocExtend(TocAppend(st.toc,
                        Entry(<<Basename(arg.name)>>, arg.name, arg.typ)),
                        arg.dependencies),
            self |-> Inherit(st.self, arg.strip, arg.upx, arg.upx_exclude,
                        arg.console, arg.target_arch, arg.codesign_identity,
                        arg.entitlements_file)]
      [] arg.cls = "TOC" ->
           [toc |-> TocExtend(st.toc, arg.toc), self |-> st.self]
      [] arg.cls = "COLLECT" ->
           [toc |-> TocExtend(st.toc, arg.toc),
            self |-> Inherit(st.self, arg.strip_binaries, arg.upx_binaries,
                        arg.upx_exclude, arg.console, arg.target_arch,
                        arg.codesign_identity, arg.entitlements_file)]
      [] OTHER -> st

\* MergeArgs that takes the targets from the last to the first.
RECURSIVE MergeArgs_Backwards(_, _)
MergeArgs_Backwards(st, as) ==
    IF as = <<>> THEN st
    ELSE ApplyArg(MergeArgs_Backwards(st, Tail(as)), Head(as))

RECURSIVE MergeArgs(_, _)
MergeArgs(st, as) ==
    IF as = <<>> THEN st ELSE MergeArgs(ApplyArg(st, Head(as)), Tail(as))

\* The attributes set before the loop over args (the icon is the default
\* one: the callers of the model pass no icon).
Defaults(k) ==
    LET base_name == k["name"]
        appname == SplitExtRoot(base_name)
        bid == Get(k, "bundle_identifier", "")
    IN  [icon |-> IconSrc,
         appname |-> appname,
         version |-> Get(k, "version", "0.0.0"),
         strip |-> FALSE,
         upx |-> FALSE,
         console |-> TRUE,
         target_arch |-> "None",
         codesign_identity |-> "None",
         entitlements_file |-> "None",
         bundle_identifier |-> IF bid = "" THEN appname ELSE bid,
         info_plist |-> Get(k, "info_plist", NoneValue)]

\* The indices of the EXECUTABLE entries of a manifest.
Executables(t) == {i \in 1..Len(t) : t[i].typ = "EXECUTABLE"}

\* "for inm, name, typ in self.toc: if typ == 'EXECUTABLE': ...; break"
FindExename(s, t) ==
    IF Executables(t) = {} THEN s
    ELSE LET first == CHOOSE i \in Executables(t) : \A j \in Executables(t) : i <= j
         IN  SetAttr(s, "exename", t[first].fnm)

BundleInit ==
    /\ pc = "new"
    /\ LET st == MergeArgs([toc |-> <<>>, self |-> Defaults(kws)], args)
       IN  /\ toc' = st.toc
           /\ self' = FindExename(st.self, st.toc)
    \* __postinit__ runs assemble whenever _check_guts says so: always.
    /\ pc' = "clean"
    /\ UNCHANGED <<args, kws, prior, fs, idx, err, warnings, signed>>

-----------------------------------------------------------------------------
(* BUNDLE.assemble: the steps before the placement loop                    *)

\* "if _check_path_overlap(self.name) and os.path.isdir(self.name): _rmtree"
\* _check_path_overlap raises when self.name overlaps a protected location.
Clean ==
    /\ pc = "clean"
    /\ \E overlap \in BOOLEAN :
         IF overlap
         THEN /\ pc' = "failed"
              /\ err' = "ConfigurationError"
              /\ fs' = fs
         ELSE /\ pc' = "scaffold"
              /\ err' = err
              /\ fs' = IF IsDir(fs, Root) THEN RmTree(fs, Root) ELSE fs
    /\ UNCHANGED <<args, kws, prior, self, toc, idx, warnings, signed>>

\* os.makedirs(p): as MakeDirs, but p itself must not exist.
MakeDirsNew(f, p) ==
    IF p \in DOMAIN f THEN Fail(f, "FileExistsError") ELSE MakeDirs(f, p)

\* The three os.makedirs calls of the skeleton.
Skeleton(f) ==
    LET r1 == MakeDirsNew(f, macos_path)
        r2 == IF r1.ok THEN MakeDirsNew(r1.fs, resources_path) ELSE r1
    IN  IF r2.ok THEN MakeDirsNew(r2.fs, frameworks_path) ELSE r2

Scaffold ==
    /\ pc = "scaffold"
    /\ LET r == Skeleton(fs)
       IN  /\ fs' = r.fs
           /\ pc' = IF r.ok THEN "icon" ELSE "failed"
           /\ err' = IF r.ok THEN err ELSE r.err
    /\ UNCHANGED <<args, kws, prior, self, toc, idx, warnings, signed>>

\* normalize_icon_type keeps an .icns icon; shutil.copy(self.icon, Resources).
IconInto(f, icon) ==
    CopyFile(f, icon.isdir, Basename(icon), Content(icon, FALSE), resources_path)

CopyIcon ==
    /\ pc = "icon"
    /\ LET r == IconInto(fs, self["icon"])
       IN  /\ fs' = r.fs
           /\ pc' = IF r.ok THEN "plist" ELSE "failed"
           /\ err' = IF r.ok THEN err ELSE r.err
    /\ UNCHANGED <<args, kws, prior, self, toc, idx, warnings, signed>>

\* dict.update
Update(d, o) ==
    [k \in (DOMAIN d) \cup (DOMAIN o) |-> IF k \in DOMAIN o THEN o[k] ELSE d[k]]

\* DefaultPlist with both conditional defaults set, whatever self.console is.
DefaultPlist_Both(s) ==
    [CFBundleDisplayName |-> s["appname"],
     CFBundleName |-> s["appname"],
     CFBundleIdentifier |-> s["bundle_identifier"],
     CFBundleExecutable |-> Basename(s["exename"]),
     CFBundleIconFile |-> Basename(s["icon"]),
     CFBundleInfoDictionaryVersion |-> "6.0",
     CFBundlePackageType |-> "APPL",
     CFBundleShortVersionString |-> s["version"],
     LSBackgroundOnly |-> TRUE,
     NSHighResolutionCapable |-> TRUE]

\* The minimal Info.plist and the default that depends on self.console.
DefaultPlist(s) ==
    LET base == [CFBundleDisplayName |-> s["appname"],
                 CFBundleName |-> s["appname"],
                 CFBundleIdentifier |-> s["bundle_identifier"],
                 CFBundleExecutable |-> Basename(s["exename"]),
                 CFBundleIconFile |-> Basename(s["icon"]),
                 CFBundleInfoDictionaryVersion |-> "6.0",
                 CFBundlePackageType |-> "APPL",
                 CFBundleShortVersionString |-> s["version"]]
    IN  IF s["console"]
        THEN ("LSBackgroundOnly" :> TRUE) @@ base
        ELSE ("NSHighResolutionCapable" :> TRUE) @@ base
\* MergePlist with the defaults laid over the caller's mapping.
MergePlist_DefaultsWin(d, ip) ==
    IF ip.isdict /\ DOMAIN ip.d # {} THEN Update(ip.d, d) ELSE d

\* "if isinstance(self.info_plist, dict) and self.info_plist: update"
MergePlist(d, ip) ==
    IF ip.isdict /\ DOMAIN ip.d # {} THEN Update(d, ip.d) ELSE d

info_plist_dict(s) == MergePlist(DefaultPlist(s), s["info_plist"])

\* AfterEntry that leaves the loop one entry early.
AfterEntry_Early(t, i) == IF i >= Len(t) THEN "sign" ELSE "place"

\* Where the loop over the manifest stands after i - 1 entries.
AfterEntry(t, i) == IF i > Len(t) THEN "sign" ELSE "place"

WritePlist ==
    /\ pc = "plist"
    /\ IF "exename" \notin DOMAIN self
       THEN /\ pc' = "failed"
            /\ err' = "AttributeError"
            /\ UNCHANGED <<fs, idx>>
       ELSE /\ fs' = (plist_filename :> FileNode(info_plist_dict(self))) @@ fs
            /\ idx' = 1
            /\ pc' = AfterEntry(toc, 1)
            /\ err' = err
    /\ UNCHANGED <<args, kws, prior, self, toc, warnings, signed>>

-----------------------------------------------------------------------------
(* BUNDLE.assemble: the placement loop                                     *)

\* The file name an extension module without a suffix is given.
ExtensionFileName(p) == IF p = "m" THEN "m.so" ELSE p

\* add_suffix_to_extension(inm, fnm, typ)
add_suffix_to_extension(e) ==
    IF e.typ = "EXTENSION"
    THEN [e EXCEPT !.inm = Parent(e.inm) \o <<ExtensionFileName(Last(e.inm))>>]
    ELSE e
\* PlacementOf without the DATA entries that end in .so on the binary path.
PlacementOf_NoDataSo(inm, typ) ==
    IF typ \in {"EXTENSION", "BINARY"}
    THEN "binary"
    ELSE IF typ = "DATA" THEN "data" ELSE "direct"

\* The three ways of placing an entry.
PlacementOf(inm, typ) ==
    IF typ \in {"EXTENSION", "BINARY"} \/ (typ = "DATA" /\ Suffix(Last(inm)) = ".so")
    THEN "binary"
    ELSE IF typ = "DATA" THEN "data" ELSE "direct"

\* "if any(['.' in p for p in inm_.parent.parts]): inm_ = Path(inm_.name)"
Collapse(inm) == IF DottedParent(inm) THEN <<Last(inm)>> ELSE inm

\* DataSkipped that skips nothing.
DataSkipped_Never(inm) == FALSE

\* "if any(['.' in p ...]) or inm_.suffix == '.so': continue"
DataSkipped(inm) == DottedParent(inm) \/ Suffix(Last(inm)) = ".so"

\* checkCache(fnm, strip=, upx=, upx_exclude=, dist_nm=, ...): the processed
\* file, kept in the cache under the destination's base name.
checkCache(fnm, s, dist_nm, strict) ==
    [isdir |-> fnm.isdir, base |-> Last(dist_nm), content |-> Content(fnm, TRUE)]

\* "if dst.is_dir(): os.makedirs(dst, exist_ok=True)
\*  else: os.makedirs(dst.parent, exist_ok=True)", run when dst does not exist.
MakeParent(f, dst) ==
    IF IsDir(f, dst) THEN MakeDirs(f, dst) ELSE MakeDirs(f, Parent(dst))

\* PlacePhysical that copies only when the destination does not exist.
PlacePhysical_FirstWins(f, file, dst) ==
    IF ~Exists(f, dst)
    THEN LET r == MakeParent(f, dst)
         IN  IF r.ok
             THEN CopyFile(r.fs, file.isdir, file.base, file.content, dst)
             ELSE r
    ELSE Ok(f)

\* PlacePhysical that makes the directories and no copy.
PlacePhysical_NoCopy(f, file, dst) ==
    IF ~Exists(f, dst) THEN MakeParent(f, dst) ELSE Ok(f)

\* The copy into Frameworks or Resources: the directories are made only when
\* the destination does not exist, the copy is made every time.
PlacePhysical(f, file, dst) ==
    LET r == IF ~Exists(f, dst) THEN MakeParent(f, dst) ELSE Ok(f)
    IN  IF r.ok
        THEN CopyFile(r.fs, file.isdir, file.base, file.content, dst)
        ELSE r
\* PlaceLink with a copy of the target's bytes in place of the link.
PlaceLink_AsCopy(f, macos_dst, target) ==
    IF ~Exists(f, macos_dst)
    THEN LET r == MakeParent(f, macos_dst)
         IN  IF r.ok THEN Ok((macos_dst :> r.fs[target]) @@ r.fs) ELSE r
    ELSE Ok(f)

\* PlaceLink without the test that nothing exists at the link's path.
PlaceLink_Unchecked(f, macos_dst, target) ==
    LET r == MakeParent(f, macos_dst)
    IN  IF r.ok THEN SymlinkTo(r.fs, macos_dst, target) ELSE r

\* The link in MacOS, made only when nothing exists at its path.
PlaceLink(f, macos_dst, target) ==
    IF ~Exists(f, macos_dst)
    THEN LET r == MakeParent(f, macos_dst)
         IN  IF r.ok THEN SymlinkTo(r.fs, macos_dst, target) ELSE r
    ELSE Ok(f)

\* The copy into MacOS, made only when nothing exists at its path.
PlaceDirect(f, fnm, macos_dst) ==
    IF ~Exists(f, macos_dst)
    THEN LET r == MakeParent(f, macos_dst)
         IN  IF r.ok
             THEN CopyFile(r.fs, fnm.isdir, Basename(fnm), Content(fnm, FALSE), macos_dst)
             ELSE r
    ELSE Ok(f)
\* BinaryPath with every internal name cut down to its base name.
BinaryPath_Flat(f, s, inm, fnm, typ) ==
    LET inm_ == <<Last(inm)>>
        frame_dst == frameworks_path \o inm_
        macos_dst == macos_path \o inm_
    IN  IF "upx_exclude" \notin DOMAIN s
        THEN Fail(f, "AttributeError")
        ELSE LET r == PlacePhysical(f, checkCache(fnm, s, inm_, typ = "EXTENSION"), frame_dst)
             IN  IF r.ok THEN PlaceLink(r.fs, macos_dst, frame_dst) ELSE r

BinaryPath(f, s, inm, fnm, typ) ==
    LET inm_ == Collapse(inm)
        frame_dst == frameworks_path \o inm_
        macos_dst == macos_path \o inm_
    IN  IF "upx_exclude" \notin DOMAIN s
        THEN Fail(f, "AttributeError")
        ELSE LET r == PlacePhysical(f, checkCache(fnm, s, inm_, typ = "EXTENSION"), frame_dst)
             IN  IF r.ok THEN PlaceLink(r.fs, macos_dst, frame_dst) ELSE r
\* DataPath with the link of the binary path: to Frameworks.
DataPath_LinkToFrameworks(f, inm, fnm) ==
    LET res_dst == resources_path \o inm
        macos_dst == macos_path \o inm
        raw == [isdir |-> fnm.isdir, base |-> Basename(fnm), content |-> Content(fnm, FALSE)]
    IN  IF DataSkipped(inm)
        THEN Ok(f)
        ELSE LET r == PlacePhysical(f, raw, res_dst)
             IN  IF r.ok THEN PlaceLink(r.fs, macos_dst, frameworks_path \o inm) ELSE r

DataPath(f, inm, fnm) ==
    LET res_dst == resources_path \o inm
        macos_dst == macos_path \o inm
        raw == [isdir |-> fnm.isdir, base |-> Basename(fnm), content |-> Content(fnm, FALSE)]
    IN  IF DataSkipped(inm)
        THEN Ok(f)
        ELSE LET r == PlacePhysical(f, raw, res_dst)
             IN  IF r.ok THEN PlaceLink(r.fs, macos_dst, res_dst) ELSE r

DirectPath(f, inm, fnm) == PlaceDirect(f, fnm, macos_path \o inm)

\* One turn of "for inm, fnm, typ in self.toc".
Place(f, s, entry) ==
    LET e == add_suffix_to_extension(entry)
        how == PlacementOf(e.inm, e.typ)
    IN  CASE how = "binary" -> BinaryPath(f, s, e.inm, e.fnm, e.typ)
          [] how = "data" -> DataPath(f, e.inm, e.fnm)
          [] OTHER -> DirectPath(f, e.inm, e.fnm)

PlaceEntry ==
    /\ pc = "place"
    /\ idx <= Len(toc)
    /\ LET r == Place(fs, self, toc[idx])
       IN  /\ fs' = r.fs
           /\ idx' = IF r.ok THEN idx + 1 ELSE idx
           /\ pc' = IF r.ok THEN AfterEntry(toc, idx + 1) ELSE "failed"
           /\ err' = IF r.ok THEN err ELSE r.err
    /\ UNCHANGED <<args, kws, prior, self, toc, warnings, signed>>

-----------------------------------------------------------------------------
(* BUNDLE.assemble: signing                                                *)

\* osxutils.sign_binary(self.name, identity, entitlements, deep=True): the
\* tree it leaves.  The signatures it adds are kept in the variable signed; a
\* call that raises leaves the tree as it found it.
sign_binary(f, identity, entitlements_file) == f

\* osxutils.sign_binary returns: the bundle is signed.
SignOk ==
    /\ pc = "sign"
    /\ fs' = sign_binary(fs, self["codesign_identity"], self["entitlements_file"])
    /\ signed' = TRUE
    /\ pc' = "done"
    /\ UNCHANGED <<args, kws, prior, self, toc, idx, err, warnings>>
\* SignHandler that lets the exception end the build.
SignHandler_Reraise(w) ==
    [pc |-> "failed",
     warnings |-> w \o <<"Error while signing the bundle", "You will need to sign the bundle manually!">>]

\* The handler of "except Exception": two warnings, and assemble goes on.
SignHandler(w) ==
    [pc |-> "done",
     warnings |-> w \o <<"Error while signing the bundle", "You will need to sign the bundle manually!">>]

\* osxutils.sign_binary raises.
SignRaises ==
    /\ pc = "sign"
    /\ pc' = SignHandler(warnings).pc
    /\ warnings' = SignHandler(warnings).warnings
    /\ fs' = sign_binary(fs, self["codesign_identity"], self["entitlements_file"])
    /\ UNCHANGED <<args, kws, prior, self, toc, idx, err, signed>>

-----------------------------------------------------------------------------

\* The keyword arguments of the builds.
PlainKws == [name |-> "My.app"]

KwsSet ==
    { PlainKws,
      [name |-> "My.app", info_plist |-> Dict(<<>>), version |-> "1.2"],
      [name |-> "My.app", info_plist |-> Dict([LSBackgroundOnly |-> FALSE])],
      [name |-> "My.app", bundle_identifier |-> "org.my",
       info_plist |-> Dict([NSHighResolutionCapable |-> FALSE,
                            CFBundleExecutable |-> "launcher"])],
      [name |-> "My.app",
       info_plist |-> Dict([CFBundleName |-> "Other", NSMicrophoneUsageDescription |-> "mic"])] }

Start ==
    /\ pc = "new"
    /\ self = <<>>
    /\ toc = <<>>
    /\ idx = 0
    /\ err = "none"
    /\ warnings = <<>>
    /\ signed = FALSE

\* Builds of the executable descriptor followed by raw manifests of one entry
\* each, into an empty output path: every manifest of up to MaxEntries entries
\* after the executable's own.
Init ==
    /\ Start
    /\ args \in {<<ExeTarget>> \o ts : ts \in SeqsUpTo(TocTargets, MaxEntries)}
    /\ kws = PlainKws
    /\ prior = EmptyFS
    /\ fs = prior

\* Builds of any targets, with and without a descriptor, with any keyword
\* arguments, into an empty output path or over the tree of an earlier build.
InitBuild ==
    /\ Start
    /\ args \in SeqsUpTo(BuildTargets, MaxArgs)
    /\ kws \in KwsSet
    /\ prior \in {EmptyFS, StaleFS}
    /\ fs = prior

Next ==
    \/ BundleInit
    \/ Clean
    \/ Scaffold
    \/ CopyIcon
    \/ WritePlist
    \/ PlaceEntry
    \/ SignOk
    \/ SignRaises

Spec == Init /\ [][Next]_vars

SpecBuild == InitBuild /\ [][Next]_vars

-----------------------------------------------------------------------------
(* The placement loop as a whole, and what the claims say of a manifest.   *)

\* "for inm, fnm, typ in self.toc: ..." from the tree f, to its end or to
\* the first entry that raises.
RECURSIVE PlaceAll(_, _, _)
PlaceAll(f, s, t) ==
    IF t = <<>> THEN Ok(f)
    ELSE LET r == Place(f, s, Head(t))
         IN  IF r.ok THEN PlaceAll(r.fs, s, Tail(t)) ELSE r

\* The freshly scaffolded tree the loop of a build of s starts from.
FreshTree(s) ==
    (plist_filename :> FileNode(info_plist_dict(s)))
        @@ IconInto(Skeleton(EmptyFS).fs, s["icon"]).fs

\* The reorderings of a manifest.
Reorderings(t) ==
    {[i \in 1..Len(t) |-> t[p[i]]] : p \in Permutations(1..Len(t))}

\* How an entry is placed, under which name, and in which directory.
HowOf(e) == PlacementOf(add_suffix_to_extension(e).inm, e.typ)
DestName(e) ==
    IF HowOf(e) = "binary"
    THEN Collapse(add_suffix_to_extension(e).inm)
    ELSE add_suffix_to_extension(e).inm
IsSkipped(e) == HowOf(e) = "data" /\ DataSkipped(e.inm)
PhysicalDir(e) ==
    CASE HowOf(e) = "binary" -> frameworks_path
      [] HowOf(e) = "data" -> resources_path
      [] OTHER -> macos_path

\* p is a proper prefix of q.
Below(p, q) == Len(p) < Len(q) /\ SubSeq(q, 1, Len(p)) = p

\* The loop has run to its end.
LoopDone == pc \in {"sign", "done"}

\* The entries the loop has placed so far.
Placed == IF pc \in {"place", "sign", "done", "failed"} THEN 1..(idx - 1) ELSE {}

IsFile(f, p) == p \in DOMAIN f /\ f[p].type = "file"
IsLink(f, p) == p \in DOMAIN f /\ f[p].type = "link"

\* The three directories of the skeleton.
SkeletonDirs == {frameworks_path, resources_path, macos_path}

\* The directories that hold a regular file under the name n.
FilesFor(f, n) == {D \in SkeletonDirs : IsFile(f, D \o n)}

\* Entry i of t has a twin: another entry of the same internal name and kind.
HasTwin(t, i) ==
    \E j \in 1..Len(t) : j # i /\ t[j].inm = t[i].inm /\ t[j].typ = t[i].typ

\* No entry of t that is placed shares e's destination name while being
\* placed another way, and none is placed below e's destination.
Undisturbed(t, e) ==
    \A k \in 1..Len(t) :
        ~IsSkipped(t[k]) =>
            /\ DestName(t[k]) = DestName(e) => HowOf(t[k]) = HowOf(e)
            /\ ~Below(DestName(e), DestName(t[k]))

\* Any two placed entries of t have unrelated destinations, or the same
\* destination reached the same way from the same source path.
Unrelated(t) ==
    \A i, j \in 1..Len(t) :
        (i # j /\ ~IsSkipped(t[i]) /\ ~IsSkipped(t[j])) =>
            /\ ~Below(DestName(t[i]), DestName(t[j]))
            /\ DestName(t[i]) = DestName(t[j]) =>
                   (HowOf(t[i]) = HowOf(t[j]) /\ t[i].fnm = t[j].fnm)

\* The physical copy of e, and the MacOS link to it.
HasCopy(f, e) == IsFile(f, PhysicalDir(e) \o DestName(e))
HasLinkToCopy(f, e) ==
    /\ (macos_path \o DestName(e)) \in DOMAIN f
    /\ f[macos_path \o DestName(e)] = LinkNode(PhysicalDir(e) \o DestName(e))

\* The directory the classification table gives an entry.
Predicted(e) ==
    IF e.typ \in {"EXTENSION", "BINARY"} \/ (e.typ = "DATA" /\ Suffix(Last(e.inm)) = ".so")
    THEN frameworks_path
    ELSE IF e.typ = "DATA" THEN resources_path ELSE macos_path

\* The mapping the caller gave as info_plist.
Overrides == Get(kws, "info_plist", NoneValue)

\* Info.plist has been written by this build.
PlistWritten == pc \in {"place", "sign", "done"} /\ plist_filename \in DOMAIN fs

Descriptor == fs[plist_filename].content

-----------------------------------------------------------------------------
(* C1 *)

\* C1, as stated: whenever the loop has finished on a manifest with two
\* entries of the same internal name and kind, that name has one regular file
\* in the directory its classification chooses and one link in MacOS.
C1_TwinsOneCopyOneLink ==
    LoopDone =>
        \A i \in 1..Len(toc) :
            HasTwin(toc, i) => HasCopy(fs, toc[i]) /\ IsLink(fs, macos_path \o DestName(toc[i]))

\* C1, amended: the same for twins placed on the binary path or on the data
\* path and not skipped, when no entry placed another way has their
\* destination name and none lies below it: the one regular file of that name
\* is in the chosen directory and MacOS holds the link to it.
C1_SharedTwinsOneCopyOneLink ==
    LoopDone =>
        \A i \in 1..Len(toc) :
            (/\ HasTwin(toc, i)
             /\ HowOf(toc[i]) # "direct"
             /\ ~IsSkipped(toc[i])
             /\ Undisturbed(toc, toc[i])) =>
                /\ FilesFor(fs, DestName(toc[i])) = {PhysicalDir(toc[i])}
                /\ HasLinkToCopy(fs, toc[i])

C1_Witness ==
    /\ LoopDone
    /\ \E i \in 1..Len(toc) :
         /\ HasTwin(toc, i)
         /\ HowOf(toc[i]) = "binary"
         /\ Undisturbed(toc, toc[i])
         /\ HasLinkToCopy(fs, toc[i])

-----------------------------------------------------------------------------
(* C2 *)

\* C2: a turn of the loop on an entry whose physical destination already
\* exists leaves the tree as it was.
C2_PresentDestinationUntouched ==
    [][(/\ pc = "place"
        /\ idx' = idx + 1
        /\ ~IsSkipped(toc[idx])
        /\ (PhysicalDir(toc[idx]) \o DestName(toc[idx])) \in DOMAIN fs) => fs' = fs]_vars

-----------------------------------------------------------------------------
(* C3 *)

\* C3, as stated: the tree the loop ends with is the tree it ends with on
\* every reordering of the manifest, started from the same scaffolded tree.
C3_AnyOrderSameTree ==
    pc = "sign" =>
        \A q \in Reorderings(toc) : PlaceAll(FreshTree(self), self, q) = Ok(fs)

\* C3, amended: the same for the manifests in which two placed entries never
\* have one destination below the other, and have the same destination only
\* when they are placed the same way from the same source path.
C3_UnrelatedAnyOrderSameTree ==
    (pc = "sign" /\ Unrelated(toc)) =>
        \A q \in Reorderings(toc) : PlaceAll(FreshTree(self), self, q) = Ok(fs)

C3_Witness ==
    /\ pc = "sign"
    /\ Unrelated(toc)
    /\ Len(toc) >= 3
    /\ \E i, j \in 1..Len(toc) :
         /\ i # j
         /\ HowOf(toc[i]) = "binary" /\ HasLinkToCopy(fs, toc[i])
         /\ HowOf(toc[j]) = "data" /\ HasLinkToCopy(fs, toc[j])

-----------------------------------------------------------------------------
(* C4 *)

\* C4: when the loop has run over the manifest once, running it over the
\* manifest again succeeds and leaves the same tree, and every link of the
\* tree has its target.
C4_SecondPassSameTree ==
    pc = "sign" =>
        LET r == PlaceAll(fs, self, toc)
        IN  /\ r.ok
            /\ r.fs = fs
            /\ \A p \in DOMAIN r.fs : Exists(r.fs, p)

C4_Witness ==
    /\ pc = "sign"
    /\ \E i, j \in 1..Len(toc) :
         /\ i < j
         /\ DestName(toc[i]) = DestName(toc[j])
         /\ toc[i].fnm # toc[j].fnm
         /\ HasLinkToCopy(fs, toc[i])

-----------------------------------------------------------------------------
(* C5 *)

\* C5, as stated: every entry the loop has been through has its destination
\* in the directory the classification table predicts; none is left out.
C5_EveryEntryPlaced ==
    \A i \in Placed : (Predicted(toc[i]) \o DestName(toc[i])) \in DOMAIN fs

\* C5, amended: the same for every entry but the DATA entries without the .so
\* suffix whose internal name has a dotted parent segment, which the loop
\* skips.
C5_EveryUnskippedEntryPlaced ==
    \A i \in Placed :
        ~(/\ toc[i].typ = "DATA"
          /\ Suffix(Last(toc[i].inm)) # ".so"
          /\ DottedParent(toc[i].inm)) =>
            (Predicted(toc[i]) \o DestName(toc[i])) \in DOMAIN fs

C5_Witness ==
    /\ LoopDone
    /\ \E i, j, k \in 1..Len(toc) :
         /\ toc[i].typ = "EXTENSION" /\ IsFile(fs, frameworks_path \o DestName(toc[i]))
         /\ toc[j].typ = "DATA" /\ Suffix(Last(toc[j].inm)) = ".so"
         /\ IsFile(fs, frameworks_path \o toc[j].inm)
         /\ toc[k].typ = "DATA" /\ IsFile(fs, resources_path \o toc[k].inm)

-----------------------------------------------------------------------------
(* C6 *)

\* C6, as stated: when the loop has finished, every placed entry of the
\* binary or data path has its copy, and MacOS holds the link to that copy.
C6_LinkToOwnCopy ==
    LoopDone =>
        \A i \in 1..Len(toc) :
            (HowOf(toc[i]) # "direct" /\ ~IsSkipped(toc[i])) =>
                HasCopy(fs, toc[i]) /\ HasLinkToCopy(fs, toc[i])

\* C6, amended: the same for the entries whose destination name no entry
\* placed another way shares, and below whose destination none is placed.
C6_UndisturbedLinkToOwnCopy ==
    LoopDone =>
        \A i \in 1..Len(toc) :
            (HowOf(toc[i]) # "direct" /\ ~IsSkipped(toc[i]) /\ Undisturbed(toc, toc[i])) =>
                HasCopy(fs, toc[i]) /\ HasLinkToCopy(fs, toc[i])

C6_Witness ==
    /\ LoopDone
    /\ \E i, j \in 1..Len(toc) :
         /\ HowOf(toc[i]) = "data" /\ Undisturbed(toc, toc[i]) /\ HasLinkToCopy(fs, toc[i])
         /\ HowOf(toc[j]) = "binary" /\ Undisturbed(toc, toc[j]) /\ HasLinkToCopy(fs, toc[j])
         /\ toc[j].typ # "BINARY"

-----------------------------------------------------------------------------
(* C7 *)

\* C7: a build whose merged manifest has no EXECUTABLE entry never touches
\* the tree, never gets to signing, and fails only with a configuration
\* error.
C7_NoExecutableFailsUntouched ==
    (pc # "new" /\ Executables(toc) = {}) =>
        /\ fs = prior
        /\ pc \notin {"sign", "done"}
        /\ pc = "failed" => err = "ConfigurationError"

-----------------------------------------------------------------------------
(* C8 *)

\* C8: when the merged manifest has one EXECUTABLE entry and the caller does
\* not override the key, the CFBundleExecutable written to Info.plist is that
\* entry's internal name.
C8_ExecutableNameIsInternalName ==
    (/\ PlistWritten
     /\ Cardinality(Executables(toc)) = 1
     /\ "CFBundleExecutable" \notin DOMAIN Overrides.d) =>
        \A i \in Executables(toc) : <<Descriptor["CFBundleExecutable"]>> = toc[i].inm

-----------------------------------------------------------------------------
(* C9 *)

\* C9: in the Info.plist written, every key of the caller's mapping has the
\* caller's value, and every other key is a default key with its default
\* value.
C9_OverridesWin ==
    PlistWritten =>
        /\ \A k \in DOMAIN Overrides.d :
               k \in DOMAIN Descriptor /\ Descriptor[k] = Overrides.d[k]
        /\ \A k \in (DOMAIN Descriptor) \ (DOMAIN Overrides.d) :
               k \in DOMAIN DefaultPlist(self) /\ Descriptor[k] = DefaultPlist(self)[k]
        /\ DOMAIN DefaultPlist(self) \subseteq DOMAIN Descriptor

C9_Witness ==
    /\ PlistWritten
    /\ self["console"]
    /\ "LSBackgroundOnly" \in DOMAIN Overrides.d
    /\ Descriptor["LSBackgroundOnly"] = FALSE
    /\ Descriptor["CFBundleName"] = "My"

-----------------------------------------------------------------------------
(* C10 *)

\* C10: the step in which sign_binary raises ends the build as done, with a
\* warning logged, and with the tree the build has without signing: the one
\* the placement loop leaves on the scaffolded tree.
C10_SigningFailureCaught ==
    [][(pc = "sign" /\ ~signed') =>
           /\ pc' = "done"
           /\ Len(warnings') > Len(warnings)
           /\ PlaceAll(FreshTree(self'), self', toc') = Ok(fs')]_vars

C10_Witness ==
    /\ pc = "done"
    /\ ~signed
    /\ Len(warnings) > 0
    /\ \E i \in 1..Len(toc) : HasLinkToCopy(fs, toc[i])

-----------------------------------------------------------------------------
(* C11 *)

\* Everything at or below the target root.
UnderRoot(f) == {p \in DOMAIN f : p = Root \/ Below(Root, p)}

\* C11: the step that finds no overlap leaves nothing at the target root,
\* whatever directory was there, and the tree of a build that ends as done is
\* the one the placement loop makes of this build's manifest on the empty
\* scaffolded tree: the skeleton, the icon, Info.plist and the placements,
\* with nothing of the tree found at the start.
C11_PriorTreeRemoved ==
    [][/\ (pc = "clean" /\ pc' = "scaffold") => UnderRoot(fs') = {}
       /\ pc' = "done" => /\ PlaceAll(FreshTree(self'), self', toc') = Ok(fs')
                          /\ \A p \in (DOMAIN prior') \ (DOMAIN FreshTree(self')) :
                                 p \in DOMAIN fs' =>
                                     \E i \in 1..Len(toc') :
                                         \/ p = PhysicalDir(toc'[i]) \o DestName(toc'[i])
                                         \/ p = macos_path \o DestName(toc'[i])]_vars

C11_Witness ==
    /\ pc = "done"
    /\ prior = StaleFS
    /\ (macos_path \o <<"old">>) \notin DOMAIN fs
    /\ \E i \in 1..Len(toc) : HasLinkToCopy(fs, toc[i])

-----------------------------------------------------------------------------
(* C12 *)

\* C12: the mapping assemble builds before it lays the caller's mapping over
\* it has LSBackgroundOnly true and no NSHighResolutionCapable when
\* self.console is true, and NSHighResolutionCapable true and no
\* LSBackgroundOnly when it is false; the Info.plist written is that mapping
\* under the caller's.
C12_OneConditionalDefault ==
    PlistWritten =>
        LET d == DefaultPlist(self)
            flags == (DOMAIN d) \cap {"LSBackgroundOnly", "NSHighResolutionCapable"}
        IN  /\ self["console"] => (flags = {"LSBackgroundOnly"} /\ d["LSBackgroundOnly"] = TRUE)
            /\ ~self["console"] =>
                   (flags = {"NSHighResolutionCapable"} /\ d["NSHighResolutionCapable"] = TRUE)
            /\ Descriptor = Update(d, Overrides.d)

C12_Witness ==
    /\ PlistWritten
    /\ ~self["console"]
    /\ Overrides.d = <<>>
    /\ "NSHighResolutionCapable" \in DOMAIN Descriptor
    /\ Descriptor["NSHighResolutionCapable"] = TRUE
    /\ "LSBackgroundOnly" \notin DOMAIN Descriptor

-----------------------------------------------------------------------------
(* C13 *)

\* The steps assemble may take from one position to the next.
StepOrder ==
    { <<"new", "clean">>, <<"clean", "scaffold">>, <<"clean", "failed">>,
      <<"scaffold", "icon">>, <<"scaffold", "failed">>,
      <<"icon", "plist">>, <<"icon", "failed">>,
      <<"plist", "place">>, <<"plist", "sign">>, <<"plist", "failed">>,
      <<"place", "place">>, <<"place", "sign">>, <<"place", "failed">>,
      <<"sign", "done">> }

\* The path of the icon in Resources.
IconPath(s) == resources_path \o <<Basename(s["icon"])>>

\* The calls of sign_binary made so far: one that returned, or one that
\* raised and left its two warnings.
SignCalls(sg, w) == (IF sg THEN 1 ELSE 0) + (Len(w) \div 2)

\* C13: every step of a build follows the order skeleton, icon, Info.plist,
\* entries, signing.  The icon is copied into a tree that holds the skeleton
\* and no icon, Info.plist is written into a tree that holds the icon and no
\* Info.plist, the loop starts on the tree that holds them and nothing else,
\* after each turn the tree is the one made by the entries up to that one in
\* manifest order, sign_binary is called only after the last entry, once, and
\* a build that has failed has never called it.
C13_FixedOrder ==
    [][/\ <<pc, pc'>> \in StepOrder
       /\ pc' = "icon" => /\ SkeletonDirs \subseteq DOMAIN fs'
                          /\ IconPath(self') \notin DOMAIN fs'
       /\ pc' = "plist" => /\ IsFile(fs', IconPath(self'))
                           /\ plist_filename \notin DOMAIN fs'
       /\ (pc = "plist" /\ pc' # "failed") => (idx' = 1 /\ fs' = FreshTree(self'))
       /\ (pc = "place" /\ pc' # "failed") =>
              /\ idx' = idx + 1
              /\ PlaceAll(FreshTree(self'), self', SubSeq(toc', 1, idx)) = Ok(fs')
       /\ SignCalls(signed', warnings') # SignCalls(signed, warnings) =>
              /\ pc = "sign"
              /\ idx = Len(toc) + 1
              /\ err = "none"
              /\ SignCalls(signed, warnings) = 0
              /\ SignCalls(signed', warnings') = 1
       /\ pc' = "done" => SignCalls(signed', warnings') = 1
       /\ pc' # "done" => SignCalls(signed', warnings') = 0]_vars

C13_Witness ==
    /\ pc = "done"
    /\ signed
    /\ Len(toc) >= 3
    /\ idx = Len(toc) + 1
    /\ IsFile(fs, IconPath(self))
    /\ IsFile(fs, plist_filename)
    /\ \E i \in 2..Len(toc) : HasLinkToCopy(fs, toc[i])

-----------------------------------------------------------------------------
(* C14 *)

\* The errors of the file system calls of the loop.
FilesystemErrors == {"FileExistsError", "FileNotFoundError", "IsADirectoryError"}

\* C14: a build that has failed takes no further step; and the turn of the
\* loop that ends with a file system error on entry idx records that error,
\* places no later entry, signs nothing, and leaves every path of the tree it
\* found - the scaffolded tree with the placements of the entries before
\* idx - as it was.
C14_AbortKeepsPartialTree ==
    [][/\ pc # "failed"
       /\ (pc = "place" /\ pc' = "failed" /\ err' \in FilesystemErrors) =>
              /\ err = "none"
              /\ idx' = idx
              /\ ~signed' /\ warnings' = <<>>
              /\ PlaceAll(FreshTree(self), self, SubSeq(toc, 1, idx - 1)) = Ok(fs)
              /\ \A p \in DOMAIN fs : p \in DOMAIN fs' /\ fs'[p] = fs[p]
              /\ {plist_filename, IconPath(self)} \cup SkeletonDirs \subseteq DOMAIN fs']_vars

C14_Witness ==
    /\ pc = "failed"
    /\ err \in FilesystemErrors
    /\ 2 < idx /\ idx < Len(toc)
    /\ HasLinkToCopy(fs, toc[idx - 1])
    /\ IsFile(fs, plist_filename)
    /\ ~signed

-----------------------------------------------------------------------------
(* C15 *)

\* The entries a target brings to the manifest.
EntriesOf(arg) ==
    CASE arg.cls = "EXE" ->
           <<Entry(<<Basename(arg.name)>>, arg.name, arg.typ)>> \o arg.dependencies
      [] arg.cls \in {"TOC", "COLLECT"} -> arg.toc
      [] OTHER -> <<>>

RECURSIVE Concatenation(_)
Concatenation(as) ==
    IF as = <<>> THEN <<>>
    ELSE Concatenation(SubSeq(as, 1, Len(as) - 1)) \o EntriesOf(as[Len(as)])

\* The attributes a descriptor hands down.
InheritedOf(arg) ==
    [strip |-> IF arg.cls = "EXE" THEN arg.strip ELSE arg.strip_binaries,
     upx |-> IF arg.cls = "EXE" THEN arg.upx ELSE arg.upx_binaries,
     upx_exclude |-> arg.upx_exclude,
     console |-> arg.console,
     target_arch |-> arg.target_arch,
     codesign_identity |-> arg.codesign_identity,
     entitlements_file |-> arg.entitlements_file]

DescriptorArgs == {i \in 1..Len(args) : args[i].cls \in {"EXE", "COLLECT"}}

\* C15: once __init__ has run, without an error, the manifest is the
\* concatenation of the targets' entries in argument order, and the
\* inherited attributes are those of the last descriptor among the targets:
\* the constructor's defaults when there is none.
C15_MergedInArgumentOrder ==
    pc # "new" =>
        /\ pc = "clean" => err = "none"
        /\ toc = Concatenation(args)
        /\ IF DescriptorArgs = {}
           THEN /\ self["strip"] = FALSE /\ self["upx"] = FALSE /\ self["console"] = TRUE
                /\ self["target_arch"] = "None" /\ self["codesign_identity"] = "None"
                /\ self["entitlements_file"] = "None"
           ELSE LET last == CHOOSE i \in DescriptorArgs : \A j \in DescriptorArgs : j <= i
                    a == InheritedOf(args[last])
                IN  \A k \in DOMAIN a : k \in DOMAIN self /\ self[k] = a[k]

C15_Witness ==
    /\ pc = "done"
    /\ Len(args) = 3
    /\ args[1].cls = "COLLECT"
    /\ args[2] = ExeDepsTarget
    /\ args[3].cls \in {"TOC", "Tree"}
    /\ self["target_arch"] = "universal2"
    /\ Len(toc) >= 4

-----------------------------------------------------------------------------
(* C16 *)

\* C16: the turn of the loop on a direct-path or binary-path entry whose
\* source is a directory, with nothing at its destination, does not fail
\* and leaves a directory at that destination.
C16_DirectoryEntryMadeDirectory ==
    [][(/\ pc = "place"
        /\ toc[idx].fnm.isdir
        /\ HowOf(toc[idx]) \in {"direct", "binary"}
        /\ (PhysicalDir(toc[idx]) \o DestName(toc[idx])) \notin DOMAIN fs) =>
           /\ pc' # "failed"
           /\ IsDir(fs', PhysicalDir(toc[idx]) \o DestName(toc[idx]))]_vars

-----------------------------------------------------------------------------
(* C17 *)

\* The part of a tree below Resources.
InResources(f) == [p \in {q \in DOMAIN f : Below(resources_path, q)} |-> f[p]]

\* C17: the turn of the loop on a data-path entry with a dotted parent
\* segment leaves the tree as it was and goes on to the next entry; the turn
\* on a DATA entry that ends in .so leaves everything below Resources as it
\* was, and no such entry of the manifest has its name below Resources.
C17_SkippedDataLeavesTree ==
    [][pc = "place" =>
          /\ (HowOf(toc[idx]) = "data" /\ DottedParent(toc[idx].inm)) =>
                 /\ fs' = fs
                 /\ idx' = idx + 1
                 /\ pc' = IF idx = Len(toc) THEN "sign" ELSE "place"
          /\ (toc[idx].typ = "DATA" /\ Suffix(Last(toc[idx].inm)) = ".so") =>
                 InResources(fs') = InResources(fs)
          /\ \A i \in 1..Len(toc) :
                 (toc[i].typ = "DATA" /\ Suffix(Last(toc[i].inm)) = ".so") =>
                     (resources_path \o toc[i].inm) \notin DOMAIN fs']_vars

C17_Witness ==
    /\ pc = "sign"
    /\ \E i, j, k \in 1..Len(toc) :
         /\ i < k /\ j < k
         /\ HowOf(toc[i]) = "data" /\ DottedParent(toc[i].inm)
         /\ (resources_path \o toc[i].inm) \notin DOMAIN fs
         /\ (macos_path \o toc[i].inm) \notin DOMAIN fs
         /\ toc[j].typ = "DATA" /\ Suffix(Last(toc[j].inm)) = ".so"
         /\ IsFile(fs, frameworks_path \o toc[j].inm)
         /\ HowOf(toc[k]) = "data" /\ HasLinkToCopy(fs, toc[k])

-----------------------------------------------------------------------------
(* C18 *)

\* The attributes the placement loop reads for the binary path.
PlacementAttributes ==
    {"strip", "upx", "upx_exclude", "target_arch", "codesign_identity",
     "entitlements_file", "console"}

\* C18: once __init__ has run, every attribute the loop reads is set, and no
\* turn of the loop on a binary-path entry fails on a missing attribute.
C18_PlacementAttributesDefined ==
    pc # "new" =>
        /\ PlacementAttributes \subseteq DOMAIN self
        /\ (pc = "failed" /\ idx \in 1..Len(toc) /\ HowOf(toc[idx]) = "binary") =>
               err # "AttributeError"

-----------------------------------------------------------------------------
(* C19 *)

\* The loop has started: it is at an entry, has ended, or has failed in one.
InLoop == pc \in {"place", "sign", "done"} \/ (pc = "failed" /\ idx >= 1)

\* C19: whenever the loop has started, every symbolic link below MacOS has
\* as its target a regular file below Frameworks or below Resources.
C19_LinksResolveToFiles ==
    InLoop =>
        \A p \in DOMAIN fs :
            (Below(macos_path, p) /\ fs[p].type = "link") =>
                /\ IsFile(fs, fs[p].target)
                /\ \/ Below(frameworks_path, fs[p].target)
                   \/ Below(resources_path, fs[p].target)

C19_Witness ==
    /\ InLoop
    /\ idx > 3
    /\ \E p, q \in DOMAIN fs :
         /\ Below(macos_path, p) /\ IsLink(fs, p) /\ Below(frameworks_path, fs[p].target)
         /\ Below(macos_path, q) /\ IsLink(fs, q) /\ Below(resources_path, fs[q].target)
    /\ \E i, j \in 1..(idx - 1) :
         i < j /\ DestName(toc[i]) = DestName(toc[j]) /\ HowOf(toc[i]) = "binary"

-----------------------------------------------------------------------------
(* C20 *)

\* The file the physical copy of an entry holds.
CopyOf(e) == FileNode(Content(e.fnm, HowOf(e) = "binary"))

\* What an entry puts at its MacOS path when nothing is there.
MacOSNodeOf(e) ==
    IF HowOf(e) = "direct"
    THEN FileNode(Content(e.fnm, FALSE))
    ELSE LinkNode(PhysicalDir(e) \o DestName(e))

\* The placed entries of t that share the MacOS path of entry i, and those
\* that share its physical path.
SameName(t, i) ==
    {j \in 1..Len(t) : ~IsSkipped(t[j]) /\ DestName(t[j]) = DestName(t[i])}
SamePhysical(t, i) ==
    {j \in SameName(t, i) : PhysicalDir(t[j]) = PhysicalDir(t[i])}

NothingBelow(t, i) ==
    \A k \in 1..Len(t) : ~IsSkipped(t[k]) => ~Below(DestName(t[i]), DestName(t[k]))

====
